---- MODULE Spec2Model ----
(***************************************************************************)
(* Model of the OllamaDev agent: the plan executor (agent.py), the action  *)
(* dispatcher (agent.py), the patch engine and the filesystem primitives   *)
(* (editor.py) and the file reader / context aggregation (analyzer.py).    *)
(*                                                                         *)
(* Text is a sequence of string tokens; the token "\n" is the line         *)
(* terminator.  "x = 1\n" is <<"x = 1", "\n">>, the empty text is <<>>.    *)
(* A path is a sequence of names, a name is <<stem, suffix>>; the project  *)
(* root is the empty path.                                                 *)
(***************************************************************************)
EXTENDS Integers, Sequences, FiniteSets, TLC

VARIABLES
    fs,              \* the file tree under (and including) the project root
    context_files,   \* self.state['context_files'], in insertion order
    target_language, \* self.state['target_language']
    errors,          \* self.state['errors']
    plan,            \* self.plan
    codebase_summary,\* local of run_task
    pc,              \* position inside run_task
    step_i,          \* loop index of the ACT loop (1-based)
    result,          \* value returned by run_task
    runs,            \* number of run_task invocations started
    raw_content,     \* last text returned by the content generator
    dispatched,      \* history: one record per _execute_step invocation of this run
    planCalls,       \* history: calls of the plan generator in this run
    genCalls,        \* history: calls of the content generator in this run
    all_successful,  \* local of run_task
    snap,            \* history: file tree and context after the last successful step
    edit,            \* last direct invocation of an editor primitive
    batch,           \* the activation of apply_multi_action_fix
    tasks            \* two tasks working on the same project root, each in one operation

vars == <<fs, context_files, target_language, errors, plan, codebase_summary,
          pc, step_i, all_successful, result, runs, raw_content, dispatched,
          planCalls, genCalls, snap, edit, batch, tasks>>

----------------------------------------------------------------------------
(* Bounds *)

MaxPlanLen == 3
MaxRuns == 2
MaxRunPlanLen == 1
MaxLines == 5
MaxBatchLen == 2
MaxAnyPlanLen == 2

(* Program constants *)

ContextLines == 3

----------------------------------------------------------------------------
(* Text *)

NL == "\n"

\* the markdown code fence (three backquotes)
Fence == "[fence]"

startswith(s, p) ==
    /\ Len(p) <= Len(s)
    /\ SubSeq(s, 1, Len(p)) = p

RECURSIVE JoinAll(_)
JoinAll(parts) ==
    IF parts = <<>> THEN <<>> ELSE Head(parts) \o JoinAll(Tail(parts))

\* str.splitlines(True): cut after every line terminator, keep the terminator
RECURSIVE SplitFrom(_, _)
SplitFrom(s, cur) ==
    IF s = <<>> THEN (IF cur = <<>> THEN <<>> ELSE <<cur>>)
    ELSE IF Head(s) = NL THEN <<Append(cur, NL)>> \o SplitFrom(Tail(s), <<>>)
    ELSE SplitFrom(Tail(s), Append(cur, Head(s)))

splitlines(s) == SplitFrom(s, <<>>)

----------------------------------------------------------------------------
(* Paths *)

Root == <<>>
A_PY == << <<"a", ".py">> >>
A_X == << <<"a", ".py">>, <<"x", "">> >>
D == << <<"d", "">> >>
D_B_JS == << <<"d", "">>, <<"b", ".js">> >>


\* project_root / "../v": a sibling of the project root, outside the project
UP_V == << <<"..", "">>, <<"v", "">> >>

Paths == {Root, A_PY, A_X, D, D_B_JS, UP_V}

\* the path leaves the project root through ".."
Outside(p) == p # <<>> /\ p[1][1] = ".."

IsPrefix(p, q) == Len(p) <= Len(q) /\ SubSeq(q, 1, Len(p)) = p

Ancestors(p) == {q \in Paths : IsPrefix(q, p) /\ q # p}

\* what is at or below p on disk; what lies behind ".." is not below the root
Descendants(p) == {q \in Paths : IsPrefix(p, q) /\ (Outside(q) => Outside(p))}

NameStr(n) == IF n[2] = "" THEN <<n[1]>> ELSE <<n[1], n[2]>>

\* str(relative_path) / the target string of a step
RECURSIVE PathStr(_)
PathStr(p) ==
    IF p = <<>> THEN <<>>
    ELSE IF Len(p) = 1 THEN NameStr(Head(p))
    ELSE NameStr(Head(p)) \o <<"/">> \o PathStr(Tail(p))

LANGUAGE_MAP == [s \in {".py", ".js"} |-> IF s = ".py" THEN "python" ELSE "javascript"]

_detect_language(p) ==
    LET suffix == IF p = <<>> THEN "" ELSE p[Len(p)][2]
    IN  IF suffix \in DOMAIN LANGUAGE_MAP THEN LANGUAGE_MAP[suffix] ELSE "text"

----------------------------------------------------------------------------
(* File tree *)

Absent == [kind |-> "absent", content |-> <<>>]
Dir == [kind |-> "dir", content |-> <<>>]
File(c) == [kind |-> "file", content |-> c]

exists(f, p) ==
    /\ f[p].kind # "absent"
    /\ \A q \in Ancestors(p) : f[q].kind = "dir"

is_dir(f, p) == exists(f, p) /\ f[p].kind = "dir"

\* a path can be created when every ancestor is a directory or is missing
ParentsCreatable(f, p) == \A q \in Ancestors(p) : f[q].kind \in {"dir", "absent"}

\* Path.mkdir(parents=True, exist_ok=True) on the ancestors of p
MkParents(f, p) == [q \in Paths |-> IF q \in Ancestors(p) THEN Dir ELSE f[q]]

\* CodeEditor._read_file_content: the lines of the file; ok is FALSE for None
_read_file_content(f, p) ==
    IF exists(f, p) /\ f[p].kind = "file"
    THEN [ok |-> TRUE, lines |-> splitlines(f[p].content)]
    ELSE [ok |-> FALSE, lines |-> <<>>]

\* ExecuteCreateDir as a bare mkdir without exist_ok: an existing directory
\* is an error
ExecuteCreateDirStrict(f, p) ==
    IF exists(f, p) \/ ~ParentsCreatable(f, p) THEN [ok |-> FALSE, fs |-> f]
    ELSE [ok |-> TRUE, fs |-> [MkParents(f, p) EXCEPT ![p] = Dir]]

\* ExecuteCreateDir that replaces a regular file found at the target
ExecuteCreateDirOverFile(f, p) ==
    IF is_dir(f, p) THEN [ok |-> TRUE, fs |-> f]
    ELSE IF ~ParentsCreatable(f, p) THEN [ok |-> FALSE, fs |-> f]
    ELSE [ok |-> TRUE, fs |-> [MkParents(f, p) EXCEPT ![p] = Dir]]

\* CodeEditor._execute_create_dir
ExecuteCreateDir(f, p) ==
    IF is_dir(f, p) THEN [ok |-> TRUE, fs |-> f]
    ELSE IF f[p].kind = "file" \/ ~ParentsCreatable(f, p) THEN [ok |-> FALSE, fs |-> f]
    ELSE [ok |-> TRUE, fs |-> [MkParents(f, p) EXCEPT ![p] = Dir]]

\* ExecuteDeleteDir that removes whatever it finds at the target
ExecuteDeleteDirAny(f, p) ==
    IF ~exists(f, p) THEN [ok |-> TRUE, fs |-> f]
    ELSE [ok |-> TRUE,
          fs |-> [q \in Paths |-> IF q \in Descendants(p) THEN Absent ELSE f[q]]]

\* CodeEditor._execute_delete_dir
ExecuteDeleteDir(f, p) ==
    IF ~exists(f, p) THEN [ok |-> TRUE, fs |-> f]
    ELSE IF ~is_dir(f, p) THEN [ok |-> FALSE, fs |-> f]
    ELSE [ok |-> TRUE,
          fs |-> [q \in Paths |-> IF q \in Descendants(p) THEN Absent ELSE f[q]]]

\* ExecuteCreate that opens the file for writing whether or not it exists
ExecuteCreateOverwrites(f, p, content) ==
    IF ~ParentsCreatable(f, p) \/ f[p].kind = "dir" THEN [ok |-> FALSE, fs |-> f]
    ELSE [ok |-> TRUE, fs |-> [MkParents(f, p) EXCEPT ![p] = File(content)]]

\* CodeEditor._execute_create
ExecuteCreate(f, p, content) ==
    IF exists(f, p) THEN [ok |-> FALSE, fs |-> f]
    ELSE IF ~ParentsCreatable(f, p) \/ f[p].kind = "dir" THEN [ok |-> FALSE, fs |-> f]
    ELSE [ok |-> TRUE, fs |-> [MkParents(f, p) EXCEPT ![p] = File(content)]]

\* ExecuteDelete that treats a missing file as an error, as os.remove does
ExecuteDeleteStrict(f, p) ==
    IF ~exists(f, p) \/ is_dir(f, p) THEN [ok |-> FALSE, fs |-> f]
    ELSE [ok |-> TRUE, fs |-> [f EXCEPT ![p] = Absent]]

\* CodeEditor._execute_delete
ExecuteDelete(f, p) ==
    IF ~exists(f, p) THEN [ok |-> TRUE, fs |-> f]
    ELSE IF is_dir(f, p) THEN [ok |-> FALSE, fs |-> f]
    ELSE [ok |-> TRUE, fs |-> [f EXCEPT ![p] = Absent]]

----------------------------------------------------------------------------
(* Patch engine: difflib.unified_diff as called by _execute_modify *)

Min(x, y) == IF x < y THEN x ELSE y
Max(x, y) == IF x > y THEN x ELSE y

\* a[i:i+k] == b[j:j+k], 0-based offsets as in difflib
BlockMatches(a, b, i, j, k) == \A t \in 1..k : a[i + t] = b[j + t]

\* SequenceMatcher.find_longest_match without junk: the longest block, of
\* those the one starting earliest in a, of those the one earliest in b
find_longest_match(a, b, alo, ahi, blo, bhi) ==
    LET cands == {c \in (alo..(ahi - 1)) \X (blo..(bhi - 1)) \X (1..Min(ahi - alo, bhi - blo)) :
                     /\ c[1] + c[3] <= ahi
                     /\ c[2] + c[3] <= bhi
                     /\ BlockMatches(a, b, c[1], c[2], c[3])}
    IN  IF cands = {} THEN <<alo, blo, 0>>
        ELSE CHOOSE c \in cands :
                \A o \in cands :
                    \/ c[3] > o[3]
                    \/ c[3] = o[3] /\ c[1] < o[1]
                    \/ c[3] = o[3] /\ c[1] = o[1] /\ c[2] <= o[2]

\* SequenceMatcher.get_matching_blocks, without the closing sentinel
RECURSIVE matching_blocks(_, _, _, _, _, _)
matching_blocks(a, b, alo, ahi, blo, bhi) ==
    LET m == find_longest_match(a, b, alo, ahi, blo, bhi)
    IN  IF m[3] = 0 THEN <<>>
        ELSE matching_blocks(a, b, alo, m[1], blo, m[2])
             \o <<m>>
             \o matching_blocks(a, b, m[1] + m[3], ahi, m[2] + m[3], bhi)

Op(tag, i1, i2, j1, j2) == [tag |-> tag, i1 |-> i1, i2 |-> i2, j1 |-> j1, j2 |-> j2]

\* SequenceMatcher.get_opcodes: blocks is the matching blocks with sentinel
RECURSIVE opcodes_from(_, _, _)
opcodes_from(blocks, i, j) ==
    IF blocks = <<>> THEN <<>>
    ELSE LET m == Head(blocks)
             tag == IF i < m[1] /\ j < m[2] THEN "replace"
                    ELSE IF i < m[1] THEN "delete"
                    ELSE IF j < m[2] THEN "insert"
                    ELSE ""
             change == IF tag = "" THEN <<>> ELSE <<Op(tag, i, m[1], j, m[2])>>
             equal == IF m[3] > 0
                      THEN <<Op("equal", m[1], m[1] + m[3], m[2], m[2] + m[3])>>
                      ELSE <<>>
         IN  change \o equal \o opcodes_from(Tail(blocks), m[1] + m[3], m[2] + m[3])

get_opcodes(a, b) ==
    opcodes_from(matching_blocks(a, b, 0, Len(a), 0, Len(b)) \o << <<Len(a), Len(b), 0>> >>, 0, 0)

\* the loop of get_grouped_opcodes: codes still to place, the open group
RECURSIVE group_loop(_, _, _)
group_loop(codes, group, n) ==
    IF codes = <<>>
    THEN IF group # <<>> /\ ~(Len(group) = 1 /\ group[1].tag = "equal")
         THEN <<group>> ELSE <<>>
    ELSE LET c == Head(codes)
         IN  IF c.tag = "equal" /\ c.i2 - c.i1 > n + n
             THEN <<Append(group, Op("equal", c.i1, Min(c.i2, c.i1 + n), c.j1, Min(c.j2, c.j1 + n)))>>
                  \o group_loop(Tail(codes),
                                <<Op("equal", Max(c.i1, c.i2 - n), c.i2, Max(c.j1, c.j2 - n), c.j2)>>, n)
             ELSE group_loop(Tail(codes), Append(group, c), n)

\* get_grouped_opcodes: "if not codes: codes = [("equal", 0, 1, 0, 1)]"
codes_or_default(raw) == IF raw = <<>> THEN <<Op("equal", 0, 1, 0, 1)>> ELSE raw

\* get_grouped_opcodes: a leading equal block keeps its last n lines
trim_first(codes, n) ==
    IF codes[1].tag = "equal"
    THEN [codes EXCEPT ![1] = Op("equal", Max(@.i1, @.i2 - n), @.i2, Max(@.j1, @.j2 - n), @.j2)]
    ELSE codes

\* get_grouped_opcodes: a trailing equal block keeps its first n lines
trim_last(codes, n) ==
    IF codes[Len(codes)].tag = "equal"
    THEN [codes EXCEPT ![Len(codes)] = Op("equal", @.i1, Min(@.i2, @.i1 + n), @.j1, Min(@.j2, @.j1 + n))]
    ELSE codes

\* SequenceMatcher.get_grouped_opcodes(n)
get_grouped_opcodes(a, b, n) ==
    group_loop(trim_last(trim_first(codes_or_default(get_opcodes(a, b)), n), n), <<>>, n)

\* the lines of one hunk, each prefixed by its tag and concatenated as text
RECURSIVE Tagged(_, _, _, _)
Tagged(tag, lines, from, to) ==
    IF from >= to THEN <<>>
    ELSE <<tag>> \o lines[from + 1] \o Tagged(tag, lines, from + 1, to)

RECURSIVE GroupBody(_, _, _)
GroupBody(group, a, b) ==
    IF group = <<>> THEN <<>>
    ELSE LET c == Head(group)
         IN  (IF c.tag = "equal" THEN Tagged(" ", a, c.i1, c.i2)
              ELSE (IF c.tag \in {"replace", "delete"} THEN Tagged("-", a, c.i1, c.i2) ELSE <<>>)
                   \o (IF c.tag \in {"replace", "insert"} THEN Tagged("+", b, c.j1, c.j2) ELSE <<>>))
             \o GroupBody(Tail(group), a, b)

\* difflib._format_range_unified, kept as the pair (beginning, length)
format_range_unified(start, stop) ==
    LET length == stop - start
    IN  IF length = 0 THEN <<start, 0>> ELSE <<start + 1, length>>

Hunk(group, a, b) ==
    LET first == group[1]
        last == group[Len(group)]
    IN  [old |-> format_range_unified(first.i1, last.i2),
         new |-> format_range_unified(first.j1, last.j2),
         body |-> GroupBody(group, a, b)]

\* difflib.unified_diff(a, b, n): the hunks; no hunk means an empty diff text
unified_diff(a, b, n) ==
    LET groups == get_grouped_opcodes(a, b, n)
    IN  [k \in 1..Len(groups) |-> Hunk(groups[k], a, b)]

----------------------------------------------------------------------------
(* Patch engine: git apply --unidiff-zero, and _execute_modify *)

IsOldLine(l) == l[1] \in {" ", "-"}
IsNewLine(l) == l[1] \in {" ", "+"}

Untag(ls) == [k \in 1..Len(ls) |-> Tail(ls[k])]

\* one hunk as git reads it: the body cut into patch lines, every patch line
\* terminated, and the line counts those announced by the hunk header
ParseHunk(h) ==
    LET plines == splitlines(h.body)
        old == SelectSeq(plines, IsOldLine)
        new == SelectSeq(plines, IsNewLine)
    IN  [ok |-> /\ \A k \in 1..Len(plines) : plines[k][Len(plines[k])] = NL
                /\ Len(old) = h.old[2]
                /\ Len(new) = h.new[2],
         pre |-> Untag(old),
         post |-> Untag(new)]

\* apply the hunks in order to the lines of the file; offset is the growth
\* of the file caused by the hunks already applied
RECURSIVE ApplyHunks(_, _, _)
ApplyHunks(lines, hunks, offset) ==
    IF hunks = <<>> THEN [ok |-> TRUE, lines |-> lines]
    ELSE LET h == Head(hunks)
             ph == ParseHunk(h)
             pos == (IF h.old[2] = 0 THEN h.old[1] + 1 ELSE h.old[1]) + offset
             n == Len(ph.pre)
         IN  IF /\ ph.ok
                /\ pos >= 1
                /\ pos + n - 1 <= Len(lines)
                /\ SubSeq(lines, pos, pos + n - 1) = ph.pre
             THEN ApplyHunks(SubSeq(lines, 1, pos - 1) \o ph.post
                                 \o SubSeq(lines, pos + n, Len(lines)),
                             Tail(hunks), offset + Len(ph.post) - n)
             ELSE [ok |-> FALSE, lines |-> lines]

\* subprocess.run(['git', 'apply', ...]): exit status and the resulting tree;
\* a rejected patch leaves the tree as it was
GitApply(f, p, hunks) ==
    LET r == ApplyHunks(splitlines(f[p].content), hunks, 0)
    IN  IF r.ok
        THEN [returncode |-> 0, fs |-> [f EXCEPT ![p] = File(JoinAll(r.lines))]]
        ELSE [returncode |-> 1, fs |-> f]

\* Cleanup that removes the patch file only after git apply accepted it
CleanupOnSuccess(written, returncode) ==
    IF ~written THEN "never"
    ELSE IF returncode = 0 THEN "removed"
    ELSE "left"

\* the finally clause of _execute_modify: what has become of the patch file
\* .<name>.tmp.patch when the call is left, given whether it was created and
\* how git apply ended (NoStatus: it did not run to its end)
Cleanup(written, returncode) == IF written THEN "removed" ELSE "never"

NoStatus == 0 - 1

\* ExecuteModify that does not look at the exit status of git apply
ExecuteModifyAnyStatus(f, p, new_file_content) ==
    LET original == _read_file_content(f, p)
        new_lines == splitlines(new_file_content)
        diff == unified_diff(original.lines, new_lines, ContextLines)
        applied == GitApply(f, p, diff)
    IN  IF ~original.ok
        THEN [ok |-> FALSE, fs |-> f, patched |-> FALSE, artifact |-> "never"]
        ELSE IF diff = <<>>
        THEN [ok |-> TRUE, fs |-> f, patched |-> FALSE, artifact |-> "never"]
        ELSE [ok |-> TRUE, fs |-> applied.fs, patched |-> TRUE,
              artifact |-> Cleanup(TRUE, applied.returncode)]

\* ExecuteModify that takes a target it cannot read for an empty file
ExecuteModifyUnreadableAsEmpty(f, p, new_file_content) ==
    LET original == _read_file_content(f, p)
        new_lines == splitlines(new_file_content)
        diff == unified_diff(original.lines, new_lines, ContextLines)
    IN  IF diff = <<>>
        THEN [ok |-> TRUE, fs |-> f, patched |-> FALSE, artifact |-> "never"]
        ELSE IF ~original.ok
        THEN [ok |-> FALSE, fs |-> f, patched |-> TRUE, artifact |-> Cleanup(TRUE, 1)]
        ELSE [ok |-> GitApply(f, p, diff).returncode = 0, fs |-> GitApply(f, p, diff).fs,
              patched |-> TRUE,
              artifact |-> Cleanup(TRUE, GitApply(f, p, diff).returncode)]

\* CodeEditor._execute_modify; patched tells whether git apply ran, artifact
\* what has become of the patch file
ExecuteModify(f, p, new_file_content) ==
    LET original == _read_file_content(f, p)
        new_lines == splitlines(new_file_content)
        diff == unified_diff(original.lines, new_lines, ContextLines)
        applied == GitApply(f, p, diff)
    IN  IF ~original.ok
        THEN [ok |-> FALSE, fs |-> f, patched |-> FALSE, artifact |-> "never"]
        ELSE IF diff = <<>>
        THEN [ok |-> TRUE, fs |-> f, patched |-> FALSE, artifact |-> "never"]
        ELSE [ok |-> applied.returncode = 0, fs |-> applied.fs, patched |-> TRUE,
              artifact |-> Cleanup(TRUE, applied.returncode)]

\* what may go wrong inside the try block: open() of the patch file raises,
\* write() raises after the file was created, subprocess.run raises
PatchFaults == {"none", "open", "write", "run"}

\* the faults that can strike a call that would otherwise end as r: none
\* but inside the try block
FaultsOf(r) == IF r.patched THEN PatchFaults ELSE {"none"}

\* _execute_modify when the try block is left by the exception fault: the
\* except clause returns False, the tree is as it was; r is how the call
\* ends without a fault
ModifyUnder(r, f, fault) ==
    IF fault = "none" THEN r
    ELSE [ok |-> FALSE, fs |-> f, patched |-> FALSE,
          artifact |-> Cleanup(fault # "open", NoStatus)]

----------------------------------------------------------------------------
(* Bounded input sets *)

LineTexts == {"a", "b"}

SeqsUpTo(S, n) == UNION {[1..k -> S] : k \in 0..n}

\* every text of at most n lines over LineTexts; the last line may lack its
\* terminator
Texts(n) ==
    LET full == {JoinAll([k \in 1..Len(ls) |-> <<ls[k], NL>>]) : ls \in SeqsUpTo(LineTexts, n)}
    IN  full \cup {SubSeq(t, 1, Len(t) - 1) : t \in full \ {<<>>}}

----------------------------------------------------------------------------
(* Analyzer: file reader, project summary, context aggregation *)

\* str.upper() on the strings the model uses
upper(s) ==
    CASE s = "python" -> "PYTHON"
      [] s = "javascript" -> "JAVASCRIPT"
      [] s = "text" -> "TEXT"
      [] s = "get_context" -> "GET_CONTEXT"
      [] s = "modify_code" -> "MODIFY_CODE"
      [] s = "Modify_Code" -> "MODIFY_CODE"
      [] s = "generate_code" -> "GENERATE_CODE"
      [] s = "foo" -> "FOO"
      [] OTHER -> s

\* CodeAnalyzer._read_file_content
AnalyzerRead(f, p) ==
    IF exists(f, p) /\ f[p].kind = "file" THEN f[p].content
    ELSE IF ~exists(f, p) THEN <<"FILE_ERROR", ": File not found at ">> \o PathStr(p)
    ELSE <<"FILE_ERROR", ": Could not read file ">> \o PathStr(p)

\* CodeAnalyzer.get_context(relative_path, mode='full')
get_context(f, p) ==
    IF ~exists(f, p)
    THEN [language |-> "text",
          content |-> <<"ERROR", ":", " File '">> \o PathStr(p)
                          \o <<"' does not exist in the project.">>]
    ELSE [language |-> _detect_language(p), content |-> AnalyzerRead(f, p)]

PathOrder == <<A_PY, A_X, D, D_B_JS>>

RECURSIVE SummaryLines(_, _)
SummaryLines(f, ps) ==
    IF ps = <<>> THEN <<>>
    ELSE (IF exists(f, Head(ps)) /\ f[Head(ps)].kind = "file"
          THEN <<NL, "- ">> \o PathStr(Head(ps)) ELSE <<>>)
         \o SummaryLines(f, Tail(ps))

\* CodeAnalyzer.get_project_summary
get_project_summary(f) ==
    LET listing == SummaryLines(f, PathOrder)
    IN  IF listing = <<>> THEN <<"ERROR", ":", " No code files found in the project root.">>
        ELSE <<"Project File Structure (relative paths):">> \o listing

\* the context store: a dict in insertion order
CtxIndex(ctx, p) == {k \in 1..Len(ctx) : ctx[k].path = p}

CtxHas(ctx, p) == CtxIndex(ctx, p) # {}

CtxGet(ctx, p) == ctx[CHOOSE k \in CtxIndex(ctx, p) : TRUE].content

\* context_files[target] = content
CtxPut(ctx, p, c) ==
    IF CtxHas(ctx, p)
    THEN [k \in 1..Len(ctx) |-> IF ctx[k].path = p THEN [path |-> p, content |-> c] ELSE ctx[k]]
    ELSE Append(ctx, [path |-> p, content |-> c])

RECURSIVE PrimaryLanguage(_)
PrimaryLanguage(ctx) ==
    IF ctx = <<>> THEN "text"
    ELSE IF _detect_language(Head(ctx).path) # "text" THEN _detect_language(Head(ctx).path)
    ELSE PrimaryLanguage(Tail(ctx))

\* the parts of combined_context, already joined by "\n"
RECURSIVE CombinedContext(_, _)
CombinedContext(ctx, first) ==
    IF ctx = <<>> THEN <<>>
    ELSE LET e == Head(ctx)
             sep == IF first THEN <<>> ELSE <<NL>>
         IN  IF e.content # <<>>
             THEN sep \o <<NL, "/* --- FILE: ">> \o PathStr(e.path)
                      \o <<" (", upper(_detect_language(e.path)), ") --- */", NL>>
                      \o <<NL>> \o e.content
                      \o CombinedContext(Tail(ctx), FALSE)
             ELSE CombinedContext(Tail(ctx), first)

\* CodeAnalyzer.get_multiple_context(list(context_files.keys()), context_files)
get_multiple_context(ctx) ==
    IF ctx = <<>> THEN <<>>
    ELSE <<Fence, PrimaryLanguage(ctx), NL>> \o CombinedContext(ctx, TRUE) \o <<NL, Fence>>

----------------------------------------------------------------------------
(* Action dispatcher: CodeAgent._execute_step *)

\* dict.get(key, default)
Get(d, key, default) == IF key \in DOMAIN d THEN d[key] ELSE default

Outcome(success, f, ctx, lang, errs, called, slept) ==
    [success |-> success, fs |-> f, context_files |-> ctx, target_language |-> lang,
     errors |-> errs, called |-> called, slept |-> slept, raised |-> FALSE]

\* the dispatcher is left by an exception: nothing is returned, the state is
\* as the statements before the raise left it
Raise(f, ctx, lang, errs, called) ==
    [success |-> FALSE, fs |-> f, context_files |-> ctx, target_language |-> lang,
     errors |-> errs, called |-> called, slept |-> FALSE, raised |-> TRUE]

\* a plan element that is not a JSON object (a number, a string): it has no
\* get method
NotAnObject == [json |-> "number"]

IsObject(step) == "json" \notin DOMAIN step

\* an absolute target outside the project: project_root / target is the
\* target itself, and Path.relative_to(project_root) raises ValueError
ABS == << <<"/abs", "">> >>

IsAbsolute(target) == target = ABS

\* StepGetContext that also writes a line to errors when the read succeeded
StepGetContextNotes(target, f, ctx, lang, errs) ==
    LET context == get_context(f, target)
    IN  IF ~startswith(context.content, <<"FILE_ERROR">>)
        THEN Outcome(TRUE, f, CtxPut(ctx, target, context.content), context.language,
                     Append(errs, <<"Read file: ">> \o PathStr(target)), FALSE, TRUE)
        ELSE Outcome(FALSE, f, ctx, lang,
                     Append(errs, <<"Failed to read file: ">> \o PathStr(target)),
                     FALSE, TRUE)

\* the GET_CONTEXT branch
StepGetContext(target, f, ctx, lang, errs) ==
    LET context == get_context(f, target)
    IN  IF ~startswith(context.content, <<"FILE_ERROR">>)
        THEN Outcome(TRUE, f, CtxPut(ctx, target, context.content), context.language,
                     errs, FALSE, TRUE)
        ELSE Outcome(FALSE, f, ctx, lang,
                     Append(errs, <<"Failed to read file: ">> \o PathStr(target)),
                     FALSE, TRUE)

\* StepGenerate that forgets to store the new content in the context store
StepGenerateNoStore(target, f, ctx, lang, errs, gen) ==
    LET full_context == get_multiple_context(ctx)
        edited == IF exists(f, target)
                  THEN ExecuteModify(f, target, gen)
                  ELSE ExecuteCreate(f, target, gen)
    IN  IF full_context = <<>>
        THEN Outcome(FALSE, f, ctx, lang, errs, FALSE, FALSE)
        ELSE IF startswith(gen, <<"ERROR", ":">>)
        THEN Outcome(FALSE, f, ctx, lang,
                     Append(errs, <<"LLM failed to generate content for ">> \o PathStr(target)),
                     TRUE, FALSE)
        ELSE Outcome(edited.ok, edited.fs, ctx, lang, errs, TRUE, TRUE)

\* StepGenerate without the test for an empty context
StepGenerateNoContextCheck(target, f, ctx, lang, errs, gen) ==
    IF startswith(gen, <<"ERROR", ":">>)
    THEN Outcome(FALSE, f, ctx, lang,
                 Append(errs, <<"LLM failed to generate content for ">> \o PathStr(target)),
                 TRUE, FALSE)
    ELSE IF exists(f, target)
    THEN Outcome(ExecuteModify(f, target, gen).ok, ExecuteModify(f, target, gen).fs,
                 ctx, lang, errs, TRUE, TRUE)
    ELSE Outcome(ExecuteCreate(f, target, gen).ok, ExecuteCreate(f, target, gen).fs,
                 ctx, lang, errs, TRUE, TRUE)

\* the GENERATE_CODE / MODIFY_CODE branch; gen is what the content generator
\* returns if it is called
StepGenerate(target, f, ctx, lang, errs, gen) ==
    LET full_context == get_multiple_context(ctx)
        edited == IF exists(f, target)
                  THEN ExecuteModify(f, target, gen)
                  ELSE ExecuteCreate(f, target, gen)
    IN  IF full_context = <<>>
        THEN Outcome(FALSE, f, ctx, lang, errs, FALSE, FALSE)
        ELSE IF startswith(gen, <<"ERROR", ":">>)
        THEN Outcome(FALSE, f, ctx, lang,
                     Append(errs, <<"LLM failed to generate content for ">> \o PathStr(target)),
                     TRUE, FALSE)
        ELSE IF IsAbsolute(target) THEN Raise(f, ctx, lang, errs, TRUE)
        ELSE Outcome(edited.ok, edited.fs,
                     IF edited.ok THEN CtxPut(ctx, target, gen) ELSE ctx,
                     lang, errs, TRUE, TRUE)

\* StepUnknown that skips the step: a warning, and the step counts as done
StepUnknownSkips(action, f, ctx, lang, errs) ==
    Outcome(TRUE, f, ctx, lang, Append(errs, <<"Unknown action: ", action>>), FALSE, TRUE)

\* StepUnknown that records nothing
StepUnknownSilent(action, f, ctx, lang, errs) ==
    Outcome(FALSE, f, ctx, lang, errs, FALSE, TRUE)

\* the final else branch
StepUnknown(action, f, ctx, lang, errs) ==
    Outcome(FALSE, f, ctx, lang, Append(errs, <<"Unknown action: ", action>>), FALSE, TRUE)

\* _execute_step that drops the context entries of files a DELETE_DIR removed
_execute_stepPrunes(step, f, ctx, lang, errs, gen) ==
    LET action == upper(Get(step, "action", ""))
        target == Get(step, "target", Root)
    IN  IF ~IsObject(step) THEN Raise(f, ctx, lang, errs, FALSE)
        ELSE IF action = "GET_CONTEXT" THEN StepGetContext(target, f, ctx, lang, errs)
        ELSE IF action = "GENERATE_CODE" \/ action = "MODIFY_CODE"
        THEN StepGenerate(target, f, ctx, lang, errs, gen)
        ELSE IF action \in {"CREATE_DIR", "DELETE_DIR"} /\ IsAbsolute(target)
        THEN Raise(f, ctx, lang, errs, FALSE)
        ELSE IF action = "CREATE_DIR"
        THEN LET r == ExecuteCreateDir(f, target)
             IN  Outcome(r.ok, r.fs, ctx, lang, errs, FALSE, TRUE)
        ELSE IF action = "DELETE_DIR"
        THEN LET r == ExecuteDeleteDir(f, target)
             IN  Outcome(r.ok, r.fs, SelectSeq(ctx, LAMBDA e : exists(r.fs, e.path)), lang, errs,
                         FALSE, TRUE)
        ELSE IF action = "REPORT_SUCCESS"
        THEN Outcome(TRUE, f, ctx, lang, errs, FALSE, TRUE)
        ELSE StepUnknown(action, f, ctx, lang, errs)

\* _execute_step in which GENERATE_CODE only creates: it refuses a target that
\* exists
_execute_stepByName(step, f, ctx, lang, errs, gen) ==
    LET action == upper(Get(step, "action", ""))
        target == Get(step, "target", Root)
    IN  IF ~IsObject(step) THEN Raise(f, ctx, lang, errs, FALSE)
        ELSE IF action = "GET_CONTEXT" THEN StepGetContext(target, f, ctx, lang, errs)
        ELSE IF action = "GENERATE_CODE" /\ exists(f, target)
        THEN Outcome(FALSE, f, ctx, lang, errs, FALSE, TRUE)
        ELSE IF action = "GENERATE_CODE" \/ action = "MODIFY_CODE"
        THEN StepGenerate(target, f, ctx, lang, errs, gen)
        ELSE IF action \in {"CREATE_DIR", "DELETE_DIR"} /\ IsAbsolute(target)
        THEN Raise(f, ctx, lang, errs, FALSE)
        ELSE IF action = "CREATE_DIR"
        THEN Outcome(ExecuteCreateDir(f, target).ok, ExecuteCreateDir(f, target).fs,
                     ctx, lang, errs, FALSE, TRUE)
        ELSE IF action = "DELETE_DIR"
        THEN Outcome(ExecuteDeleteDir(f, target).ok, ExecuteDeleteDir(f, target).fs,
                     ctx, lang, errs, FALSE, TRUE)
        ELSE IF action = "REPORT_SUCCESS"
        THEN Outcome(TRUE, f, ctx, lang, errs, FALSE, TRUE)
        ELSE StepUnknown(action, f, ctx, lang, errs)

_execute_step(step, f, ctx, lang, errs, gen) ==
    LET action == upper(Get(step, "action", ""))
        target == Get(step, "target", Root)
    IN  IF ~IsObject(step) THEN Raise(f, ctx, lang, errs, FALSE)
        ELSE IF action = "GET_CONTEXT" THEN StepGetContext(target, f, ctx, lang, errs)
        ELSE IF action = "GENERATE_CODE" \/ action = "MODIFY_CODE"
        THEN StepGenerate(target, f, ctx, lang, errs, gen)
        ELSE IF action \in {"CREATE_DIR", "DELETE_DIR"} /\ IsAbsolute(target)
        THEN Raise(f, ctx, lang, errs, FALSE)
        ELSE IF action = "CREATE_DIR"
        THEN LET r == ExecuteCreateDir(f, target)
             IN  Outcome(r.ok, r.fs, ctx, lang, errs, FALSE, TRUE)
        ELSE IF action = "DELETE_DIR"
        THEN LET r == ExecuteDeleteDir(f, target)
             IN  Outcome(r.ok, r.fs, ctx, lang, errs, FALSE, TRUE)
        ELSE IF action = "REPORT_SUCCESS"
        THEN Outcome(TRUE, f, ctx, lang, errs, FALSE, TRUE)
        ELSE StepUnknown(action, f, ctx, lang, errs)

\* whether this step, in this state, reaches the content generator
CallsGenerator(step, ctx) ==
    /\ upper(Get(step, "action", "")) \in {"GENERATE_CODE", "MODIFY_CODE"}
    /\ get_multiple_context(ctx) # <<>>

----------------------------------------------------------------------------
(* External collaborators: what they may return *)

X1 == <<"x = 1", NL>>
X2 == <<"x = 2", NL>>
X1U == <<"x = 1">>
X2U == <<"x = 2">>

LLM_ERROR == <<"ERROR", ":", " Ollama request failed">>

\* what client.generate_content may return for an execution prompt
GenOutputs == {LLM_ERROR, X1, X2, X2U}

NoText == <<"<none>">>

Step(action, target) == [action |-> action, target |-> target]

\* the steps a plan may contain
StepSet ==
    {Step("GET_CONTEXT", A_PY), Step("get_context", D_B_JS), Step("GET_CONTEXT", D),
     Step("GENERATE_CODE", A_PY), Step("MODIFY_CODE", D_B_JS), Step("modify_code", D),
     Step("GENERATE_CODE", A_X),
     Step("CREATE_DIR", D), Step("CREATE_DIR", A_PY),
     Step("DELETE_DIR", D), Step("DELETE_DIR", A_PY),
     Step("REPORT_SUCCESS", Root), Step("FOO", A_PY), [target |-> D]}

\* what client.generate_content may return for a planning prompt: text that
\* is not JSON, a JSON object, or a JSON array of steps
PlanResponsesOver(S, n) ==
    {[json |-> "invalid", value |-> <<>>], [json |-> "object", value |-> <<>>]}
    \cup {[json |-> "array", value |-> v] : v \in SeqsUpTo(S, n)}

PlanResponses(n) == PlanResponsesOver(StepSet, n)

\* plan elements of every shape json.loads can produce in an array: steps as
\* above, steps without action or without target, a step whose target is an
\* absolute path or leaves the root through "..", and an element that is not
\* an object
AnySteps ==
    {Step("GET_CONTEXT", A_PY), Step("GENERATE_CODE", A_PY), Step("GENERATE_CODE", ABS),
     Step("CREATE_DIR", D), Step("CREATE_DIR", ABS), Step("DELETE_DIR", ABS),
     Step("REPORT_SUCCESS", Root), [action |-> "REPORT_SUCCESS"], [target |-> D],
     [action |-> "DELETE_DIR"], Step("CREATE_DIR", UP_V),
     NotAnObject}

NonePlan == [none |-> TRUE, steps |-> <<>>]
ListPlan(v) == [none |-> FALSE, steps |-> v]

\* CodeAgent._generate_plan, after the call of the client
_generate_plan(raw_json_plan) ==
    IF raw_json_plan.json = "invalid" THEN NonePlan
    ELSE IF raw_json_plan.json # "array" THEN NonePlan
    ELSE ListPlan(raw_json_plan.value)

\* the truth value Python gives to self.plan
Truthy(pl) == ~pl.none /\ pl.steps # <<>>

----------------------------------------------------------------------------
(* Plan executor: CodeAgent.run_task *)

Tree(a_py, d, d_b_js) ==
    [q \in Paths |-> IF q = Root THEN Dir
                     ELSE IF q = A_PY THEN a_py
                     ELSE IF q = D THEN d
                     ELSE IF q = D_B_JS THEN d_b_js
                     ELSE Absent]

\* the project checkouts a task may start from
InitTrees ==
    {Tree(Absent, Absent, Absent),
     Tree(File(X1), Absent, Absent),
     Tree(File(X1U), Dir, File(X2))}

NoEdit == [op |-> "none", path |-> Root, content |-> <<>>, ok |-> FALSE,
           patched |-> FALSE, before |-> <<>>, tree |-> <<>>,
           prevOp |-> "none", again |-> FALSE, prevOk |-> FALSE,
           artifact |-> "never", fault |-> "none"]

\* apply_multi_action_fix not entered
NoBatch == [pc |-> "idle", actions |-> <<>>, i |-> 0, user_input |-> "",
            all_successful |-> TRUE, result |-> FALSE, invoked |-> <<>>,
            tree |-> <<>>]

\* CodeAgent.__init__
\* the tasks that may share one project root
Tasks == {1, 2}

\* a task that has not started its operation
NoTask == [pc |-> "idle", target |-> Root, content |-> NoText, branch |-> "none",
           ok |-> FALSE, stale |-> FALSE]

InitAgent ==
    /\ context_files = <<>>
    /\ target_language = "python"
    /\ errors = <<>>
    /\ plan = ListPlan(<<>>)
    /\ codebase_summary = NoText
    /\ pc = "idle"
    /\ step_i = 0
    /\ all_successful = TRUE
    /\ result = FALSE
    /\ runs = 0
    /\ raw_content = NoText
    /\ dispatched = <<>>
    /\ planCalls = 0
    /\ genCalls = <<>>
    /\ edit = NoEdit
    /\ batch = NoBatch
    /\ tasks = [t \in Tasks |-> NoTask]

Init ==
    /\ fs \in InitTrees
    /\ InitAgent
    /\ snap = [fs |-> fs, context_files |-> <<>>]

\* entry of run_task: the state is cleared for the new task
RunTaskBegin(maxRuns) ==
    /\ pc \in {"idle", "done"}
    /\ runs < maxRuns
    /\ runs' = runs + 1
    /\ errors' = <<>>
    /\ context_files' = <<>>
    /\ pc' = "observe"
    /\ step_i' = 0
    /\ all_successful' = TRUE
    /\ codebase_summary' = NoText
    /\ dispatched' = <<>>
    /\ planCalls' = 0
    /\ genCalls' = <<>>
    /\ snap' = [fs |-> fs, context_files |-> <<>>]
    /\ UNCHANGED <<fs, target_language, plan, result, raw_content, edit, batch, tasks>>

\* Observe that does not test the summary for the error sentinel
ObserveNoCheck ==
    /\ pc = "observe"
    /\ codebase_summary' = get_project_summary(fs)
    /\ pc' = "plan"
    /\ UNCHANGED <<fs, context_files, target_language, errors, plan, step_i,
                   all_successful, result, runs, raw_content, dispatched, planCalls,
                   genCalls, snap, edit, batch, tasks>>

\* 1. Observe
Observe ==
    /\ pc = "observe"
    /\ codebase_summary' = get_project_summary(fs)
    /\ IF startswith(codebase_summary', <<"ERROR">>)
       THEN pc' = "done" /\ result' = FALSE
       ELSE pc' = "plan" /\ UNCHANGED result
    /\ UNCHANGED <<fs, context_files, target_language, errors, plan, step_i,
                   all_successful, runs, raw_content, dispatched, planCalls,
                   genCalls, snap, edit, batch, tasks>>

\* 2. Plan
GeneratePlanFrom(responses) ==
    /\ pc = "plan"
    /\ \E raw_json_plan \in responses :
           plan' = _generate_plan(raw_json_plan)
    /\ planCalls' = planCalls + 1
    /\ IF ~Truthy(plan')
       THEN pc' = "done" /\ result' = FALSE /\ UNCHANGED step_i
       ELSE pc' = "act" /\ step_i' = 1 /\ UNCHANGED result
    /\ UNCHANGED <<fs, context_files, target_language, errors, codebase_summary,
                   all_successful, runs, raw_content, dispatched, genCalls, snap, edit, batch, tasks>>

GeneratePlan(maxLen) == GeneratePlanFrom(PlanResponses(maxLen))

\* AfterStep without the break: the loop goes on after a failed step
AfterStepNoBreak(success, i, n, all) ==
    IF i < n THEN [pc |-> "act", step_i |-> i + 1, all_successful |-> all /\ success]
    ELSE [pc |-> "report", step_i |-> i, all_successful |-> all /\ success]

\* AfterStep that asks for a new plan when a step has failed
AfterStepReplans(success, i, n, all) ==
    IF ~success THEN [pc |-> "plan", step_i |-> i, all_successful |-> all]
    ELSE IF i < n THEN [pc |-> "act", step_i |-> i + 1, all_successful |-> all]
    ELSE [pc |-> "report", step_i |-> i, all_successful |-> all]

\* AfterStep that advances by two after a successful step
AfterStepSkips(success, i, n, all) ==
    IF ~success THEN [pc |-> "report", step_i |-> i, all_successful |-> FALSE]
    ELSE IF i + 1 < n THEN [pc |-> "act", step_i |-> i + 2, all_successful |-> all]
    ELSE IF i < n THEN [pc |-> "act", step_i |-> i + 1, all_successful |-> all]
    ELSE [pc |-> "report", step_i |-> i, all_successful |-> all]

\* the loop control of 3. Act, after step i of n returned success or failure
AfterStep(success, i, n, all) ==
    IF ~success THEN [pc |-> "report", step_i |-> i, all_successful |-> FALSE]
    ELSE IF i < n THEN [pc |-> "act", step_i |-> i + 1, all_successful |-> all]
    ELSE [pc |-> "report", step_i |-> i, all_successful |-> all]

\* the return value of the latest invocation of _execute_step
success_of(d) == d[Len(d)].success

\* whether the latest invocation of _execute_step was left by an exception
raised_of(d) == d[Len(d)].raised

\* an exception in _execute_step is not caught by run_task: the run ends
\* there, without REPORT and without a return value
Propagate(raised, next) == IF raised THEN [next EXCEPT !.pc = "raised"] ELSE next

\* what the content generator may return to this step: nothing if the step
\* does not reach it
GenFor(step, ctx) == IF CallsGenerator(step, ctx) THEN GenOutputs ELSE {NoText}

\* the record of one invocation of _execute_step that returned o
Dispatch(step, i, o) ==
    [index |-> i,
     action |-> upper(Get(step, "action", "")),
     target |-> Get(step, "target", Root),
     success |-> o.success,
     called |-> o.called, slept |-> o.slept, raised |-> o.raised]

\* the request sent to the content generator
GenCall(step, lang, ctx) ==
    [target |-> Get(step, "target", Root),
     language |-> lang,
     context |-> get_multiple_context(ctx)]

\* the state after _execute_step returned o for this step
Act(step, gen, o) ==
    /\ fs' = o.fs
    /\ context_files' = o.context_files
    /\ target_language' = o.target_language
    /\ errors' = o.errors
    /\ raw_content' = IF o.called THEN gen ELSE raw_content
    /\ genCalls' = IF o.called
                   THEN Append(genCalls, GenCall(step, target_language, context_files))
                   ELSE genCalls
    /\ dispatched' = Append(dispatched, Dispatch(step, step_i, o))
    /\ snap' = IF o.success
               THEN [fs |-> o.fs, context_files |-> o.context_files]
               ELSE snap

\* the loop control applied to the outcome of the step
Loop(next) ==
    /\ pc' = next.pc
    /\ step_i' = next.step_i
    /\ all_successful' = next.all_successful

\* 3. Act: one iteration of the loop, one invocation of _execute_step
ExecuteStep ==
    /\ pc = "act"
    /\ \E gen \in GenFor(plan.steps[step_i], context_files) :
         /\ Act(plan.steps[step_i], gen,
                _execute_step(plan.steps[step_i], fs, context_files, target_language,
                              errors, gen))
         /\ Loop(Propagate(raised_of(dispatched'),
                           AfterStep(success_of(dispatched'), step_i, Len(plan.steps),
                                     all_successful)))
    /\ UNCHANGED <<plan, codebase_summary, result, runs, planCalls, edit, batch, tasks>>

\* 4. Report, and the return
Report ==
    /\ pc = "report"
    /\ pc' = "done"
    /\ result' = all_successful
    /\ UNCHANGED <<fs, context_files, target_language, errors, plan, codebase_summary,
                   step_i, all_successful, runs, raw_content, dispatched, planCalls,
                   genCalls, snap, edit, batch, tasks>>

\* one task on a freshly constructed agent
Next ==
    \/ RunTaskBegin(1)
    \/ Observe
    \/ GeneratePlan(MaxPlanLen)
    \/ ExecuteStep
    \/ Report

Spec == Init /\ [][Next]_vars

\* consecutive tasks on the same agent
NextRuns ==
    \/ RunTaskBegin(MaxRuns)
    \/ Observe
    \/ GeneratePlan(MaxRunPlanLen)
    \/ ExecuteStep
    \/ Report

SpecRuns == Init /\ [][NextRuns]_vars

\* one task whose plan may hold elements of every shape
NextAny ==
    \/ RunTaskBegin(1)
    \/ Observe
    \/ GeneratePlanFrom(PlanResponsesOver(AnySteps, MaxAnyPlanLen))
    \/ ExecuteStep
    \/ Report

SpecAny == Init /\ [][NextAny]_vars

----------------------------------------------------------------------------
(* Two tasks on one project root: the steps of GENERATE_CODE / MODIFY_CODE
   between which another task may act *)

ConcTargets == {A_PY, D_B_JS}

ConcContents == {X1, X2}

\* the try block of _execute_create with open(filepath, 'x'): it refuses a
\* path that exists by the time of the write
WriteFileExclusive(f, p, content) ==
    IF exists(f, p) \/ ~ParentsCreatable(f, p) THEN [ok |-> FALSE, fs |-> f]
    ELSE [ok |-> TRUE, fs |-> [MkParents(f, p) EXCEPT ![p] = File(content)]]

\* the try block of _execute_create, after the existence check: mkdir of the
\* parents, open(filepath, 'w'), write
WriteFile(f, p, content) ==
    IF ~ParentsCreatable(f, p) \/ f[p].kind = "dir" THEN [ok |-> FALSE, fs |-> f]
    ELSE [ok |-> TRUE, fs |-> [MkParents(f, p) EXCEPT ![p] = File(content)]]

ConcUnchanged ==
    UNCHANGED <<context_files, target_language, errors, plan, codebase_summary, pc,
                step_i, all_successful, result, runs, raw_content, dispatched,
                planCalls, genCalls, snap, edit, batch>>

\* the dispatcher has the generated content and looks whether the target
\* exists: full_path.exists()
TaskBranch(t) ==
    /\ tasks[t].pc = "idle"
    /\ \E p \in ConcTargets, c \in ConcContents :
          tasks' = [tasks EXCEPT ![t] =
                       [NoTask EXCEPT !.pc = IF exists(fs, p) THEN "modify" ELSE "create",
                                      !.branch = IF exists(fs, p) THEN "modify" ELSE "create",
                                      !.target = p, !.content = c]]
    /\ UNCHANGED fs
    /\ ConcUnchanged

\* _execute_create up to its own existence check
TaskCreateCheck(t) ==
    /\ tasks[t].pc = "create"
    /\ tasks' = IF exists(fs, tasks[t].target)
                THEN [tasks EXCEPT ![t].pc = "done", ![t].ok = FALSE, ![t].stale = TRUE]
                ELSE [tasks EXCEPT ![t].pc = "write"]
    /\ UNCHANGED fs
    /\ ConcUnchanged

\* _execute_create from the try block to its return
TaskCreateWrite(t) ==
    /\ tasks[t].pc = "write"
    /\ fs' = WriteFile(fs, tasks[t].target, tasks[t].content).fs
    /\ tasks' = [tasks EXCEPT ![t].pc = "done",
                              ![t].ok = WriteFile(fs, tasks[t].target, tasks[t].content).ok,
                              ![t].stale = exists(fs, tasks[t].target)]
    /\ ConcUnchanged

\* _execute_modify
TaskModify(t) ==
    /\ tasks[t].pc = "modify"
    /\ fs' = ExecuteModify(fs, tasks[t].target, tasks[t].content).fs
    /\ tasks' = [tasks EXCEPT ![t].pc = "done",
                              ![t].ok = ExecuteModify(fs, tasks[t].target, tasks[t].content).ok]
    /\ ConcUnchanged

NextConc ==
    \E t \in Tasks :
        \/ TaskBranch(t)
        \/ TaskCreateCheck(t)
        \/ TaskCreateWrite(t)
        \/ TaskModify(t)

SpecConc == Init /\ [][NextConc]_vars

----------------------------------------------------------------------------
(* The patch engine on its own: one file, one proposed content *)

InitPatch ==
    /\ \E F \in Texts(MaxLines) : fs = Tree(File(F), Absent, Absent)
    /\ InitAgent
    /\ snap = [fs |-> fs, context_files |-> <<>>]

\* a direct call of CodeEditor._execute_modify(a.py, C)
ModifyCall ==
    /\ edit.op = "none"
    /\ \E C \in Texts(MaxLines) :
         \E fault \in FaultsOf(ExecuteModify(fs, A_PY, C)) :
         LET r == ModifyUnder(ExecuteModify(fs, A_PY, C), fs, fault)
         IN  /\ fs' = r.fs
             /\ edit' = [op |-> "modify", path |-> A_PY, content |-> C, ok |-> r.ok,
                         patched |-> r.patched, before |-> fs[A_PY].content,
                         tree |-> fs, prevOp |-> edit.op, again |-> edit.path = A_PY,
                         prevOk |-> edit.ok, artifact |-> r.artifact, fault |-> fault]
    /\ UNCHANGED <<context_files, target_language, errors, plan, codebase_summary, pc,
                   step_i, all_successful, result, runs, raw_content, dispatched,
                   planCalls, genCalls, snap, batch, tasks>>

NextPatch == ModifyCall

SpecPatch == InitPatch /\ [][NextPatch]_vars

----------------------------------------------------------------------------
(* The filesystem primitives on their own: direct calls of the editor and   *)
(* single directory steps through the dispatcher, in any order              *)

\* the checkouts the calls start from
PrimTrees ==
    InitTrees \cup {Tree(Absent, File(X2), Absent), Tree(Absent, Dir, Absent)}

\* full_path = project_root / target, for the targets below the root
PrimTargets == {p \in Paths \ {Root} : ~Outside(p)}

PrimContents == {X1, X2U}

InitPrims ==
    /\ fs \in PrimTrees
    /\ InitAgent
    /\ snap = [fs |-> fs, context_files |-> <<>>]

\* the record of a call that returned r
Called(op, p, c, r) ==
    [op |-> op, path |-> p, content |-> c, ok |-> r.ok, patched |-> FALSE,
     before |-> fs[p].content, tree |-> fs,
     prevOp |-> edit.op, again |-> edit.path = p, prevOk |-> edit.ok,
     artifact |-> "never", fault |-> "none"]

PrimUnchanged ==
    UNCHANGED <<context_files, target_language, errors, plan, codebase_summary, pc,
                step_i, all_successful, result, runs, raw_content, dispatched,
                planCalls, genCalls, snap, batch, tasks>>

\* a direct call of CodeEditor._execute_create(p, c)
CreateCall ==
    /\ \E p \in PrimTargets, c \in PrimContents :
         /\ fs' = ExecuteCreate(fs, p, c).fs
         /\ edit' = Called("create", p, c, ExecuteCreate(fs, p, c))
    /\ PrimUnchanged

\* a direct call of CodeEditor._execute_delete(p)
DeleteCall ==
    /\ \E p \in PrimTargets :
         /\ fs' = ExecuteDelete(fs, p).fs
         /\ edit' = Called("delete", p, <<>>, ExecuteDelete(fs, p))
    /\ PrimUnchanged

\* a direct call of CodeEditor._execute_create_dir(p)
CreateDirCall ==
    /\ \E p \in PrimTargets :
         /\ fs' = ExecuteCreateDir(fs, p).fs
         /\ edit' = Called("create_dir", p, <<>>, ExecuteCreateDir(fs, p))
    /\ PrimUnchanged

\* a direct call of CodeEditor._execute_delete_dir(p)
DeleteDirCall ==
    /\ \E p \in PrimTargets :
         /\ fs' = ExecuteDeleteDir(fs, p).fs
         /\ edit' = Called("delete_dir", p, <<>>, ExecuteDeleteDir(fs, p))
    /\ PrimUnchanged

\* the dispatcher's view of an outcome, as a call record
StepResult(o) == [ok |-> o.success]

\* one CREATE_DIR or DELETE_DIR step handed to _execute_step
DirStepCall ==
    /\ \E action \in {"CREATE_DIR", "DELETE_DIR"}, p \in PrimTargets :
         /\ fs' = _execute_step(Step(action, p), fs, context_files, target_language,
                                errors, NoText).fs
         /\ edit' = Called(action, p, <<>>,
                           StepResult(_execute_step(Step(action, p), fs, context_files,
                                                    target_language, errors, NoText)))
    /\ PrimUnchanged

NextPrims ==
    \/ CreateCall
    \/ DeleteCall
    \/ CreateDirCall
    \/ DeleteDirCall
    \/ DirStepCall

SpecPrims == InitPrims /\ [][NextPrims]_vars

----------------------------------------------------------------------------
(* Properties *)

\* this transition is one invocation of _execute_step
Dispatching == Len(dispatched') = Len(dispatched) + 1

\* the record of the invocation made by this transition
Returned == dispatched'[Len(dispatched')]

KnownActions ==
    {"GET_CONTEXT", "GENERATE_CODE", "MODIFY_CODE", "CREATE_DIR", "DELETE_DIR",
     "REPORT_SUCCESS"}

\* C1: steps are dispatched in plan order; once a step has returned failure no
\* later step is dispatched, the task ends with result false, and the context
\* store and the file tree are those left by the last successful step (no
\* rollback).
C1_FailFast ==
    \A k \in 1..Len(dispatched) :
        /\ dispatched[k].index = k
        /\ ~dispatched[k].success =>
              /\ Len(dispatched) = k
              /\ pc \in {"report", "done"}
              /\ ~all_successful
              /\ (pc = "done" => ~result)
              /\ context_files = snap.context_files
              /\ fs = snap.fs

\* a three-step plan whose second step failed after the first stored context
C1_Witness ==
    /\ pc = "done"
    /\ ~result
    /\ Len(plan.steps) = 3
    /\ Len(dispatched) = 2
    /\ dispatched[1].success
    /\ ~dispatched[2].success
    /\ context_files # <<>>

\* C2: a GET_CONTEXT step whose target does not exist returns failure,
\* appends "Failed to read file: <target>" to errors, leaves the context
\* store alone and ends the ACT loop.
C2_MissingFileFails ==
    [][(Dispatching /\ Returned.action = "GET_CONTEXT" /\ ~exists(fs, Returned.target))
          => /\ ~Returned.success
             /\ errors' = Append(errors, <<"Failed to read file: ">> \o PathStr(Returned.target))
             /\ context_files' = context_files
             /\ pc' = "report"]_vars

C5_UnknownDoesNotAbort ==
    [][(Dispatching /\ Returned.action \notin KnownActions /\ step_i < Len(plan.steps))
          => /\ errors' = Append(errors, <<"Unknown action: ", Returned.action>>)
             /\ pc' = "act"
             /\ step_i' = step_i + 1]_vars

\* C5 amended: a step with an unknown action is recorded as an error and
\* aborts the plan: the loop ends at that step, whatever follows it.
C5_UnknownAborts ==
    [][(Dispatching /\ Returned.action \notin KnownActions)
          => /\ errors' = Append(errors, <<"Unknown action: ", Returned.action>>)
             /\ pc' = "report"
             /\ step_i' = step_i
             /\ ~all_successful']_vars

\* an unknown step that was not the last of its plan ended the ACT loop
C5_Witness ==
    /\ pc = "report"
    /\ dispatched # <<>>
    /\ dispatched[Len(dispatched)].action = "FOO"
    /\ Len(dispatched) < Len(plan.steps)

\* C6: an unknown action makes the dispatcher return failure with "Unknown
\* action: X" appended to errors, and fail-fast applies to it: it is the
\* last step dispatched and the task result is false.
C6_UnknownIsFailure ==
    \A k \in 1..Len(dispatched) :
        dispatched[k].action \notin KnownActions =>
            /\ ~dispatched[k].success
            /\ k = Len(dispatched)
            /\ errors # <<>>
            /\ errors[Len(errors)] = <<"Unknown action: ", dispatched[k].action>>
            /\ pc \in {"report", "done"}
            /\ (pc = "done" => ~result)

\* a task that ended on a step without an action key, with steps left over
C6_Witness ==
    /\ pc = "done"
    /\ ~result
    /\ Len(dispatched) = 2
    /\ dispatched[2].action = ""
    /\ Len(plan.steps) = 3
    /\ errors = << <<"Unknown action: ", "">> >>

\* C7: an invocation of the dispatcher that returns failure appends exactly
\* one string to errors; one that returns success leaves errors unchanged.
C7_OneErrorPerFailure ==
    [][Dispatching
          => IF Returned.success
             THEN errors' = errors
             ELSE Len(errors') = Len(errors) + 1
                  /\ SubSeq(errors', 1, Len(errors)) = errors]_vars

\* C8: whenever run_task returns false, errors is not empty.
C8_FailureLeavesErrors ==
    (pc = "done" /\ ~result) => errors # <<>>

\* C9: every run_task invocation starts from the reset TaskState: no
\* context, no errors, and the initial language.
C9_StateReset ==
    pc = "observe" =>
        /\ context_files = <<>>
        /\ errors = <<>>
        /\ target_language = "python"

\* C10: no step is dispatched unless OBSERVE and PLAN succeeded.  After an
\* error summary the plan generator is not called; after a plan response
\* that is not a JSON array no step is dispatched; in both cases the result
\* is false and the file tree and the (reset) context store are untouched.
C10_NoStepWithoutPlan ==
    /\ startswith(codebase_summary, <<"ERROR">>) =>
          /\ planCalls = 0
          /\ dispatched = <<>>
          /\ pc = "done"
          /\ ~result
          /\ fs = snap.fs
          /\ context_files = <<>>
    /\ plan.none =>
          /\ planCalls = 1
          /\ dispatched = <<>>
          /\ pc = "done"
          /\ ~result
          /\ fs = snap.fs
          /\ context_files = <<>>
    /\ dispatched # <<>> =>
          /\ ~startswith(codebase_summary, <<"ERROR">>)
          /\ planCalls = 1
          /\ ~plan.none

\* the plan generator answered with something that is not a JSON array
C10_Witness ==
    /\ pc = "done"
    /\ plan.none
    /\ planCalls = 1
    /\ codebase_summary # NoText

----------------------------------------------------------------------------
(* Properties of the filesystem primitives *)

\* every entry of the tree but those at the paths in S is as it was
SameExcept(S) == \A q \in Paths \ S : fs'[q] = fs[q]

\* the call that just returned: its name, its target, its result
Calling(ops) == edit'.op \in ops

\* the call that just returned targets the path of the call before it, and
\* that call was one of ops
Again(ops) == edit.op \in ops /\ edit.path = edit'.path

\* create-file wrote content at its target and made the missing ancestors
Created ==
    /\ edit'.ok
    /\ fs'[edit'.path] = File(edit'.content)
    /\ \A q \in Ancestors(edit'.path) : fs'[q] = Dir
    /\ SameExcept(Ancestors(edit'.path) \cup {edit'.path})

\* the call failed and changed nothing
Refused == ~edit'.ok /\ fs' = fs

\* C11 as stated: create-file fails on every existing path and leaves it
\* alone, on every missing path it creates the missing parents and writes
\* exactly the content, and in a sequence of create-file calls on one path
\* only the first can succeed.
C11_CreateNeverOverwrites ==
    [][Calling({"create"}) =>
        /\ exists(fs, edit'.path) => Refused
        /\ ~exists(fs, edit'.path) => Created
        /\ Again({"create"}) => ~edit'.ok]_vars

\* C11 amended: as C11, but a missing path with a regular file among its
\* ancestors cannot be created: the call fails and changes nothing.
C11_CreateUnlessUnderFile ==
    [][Calling({"create"}) =>
        /\ exists(fs, edit'.path) => Refused
        /\ (~exists(fs, edit'.path) /\ ParentsCreatable(fs, edit'.path)) => Created
        /\ ~ParentsCreatable(fs, edit'.path) => Refused
        /\ Again({"create"}) => ~edit'.ok]_vars

\* create-file made d/b.js with non-empty content, and the missing directory d
C11_Witness ==
    /\ edit.op = "create" /\ edit.ok /\ edit.path = D_B_JS
    /\ edit.tree[D] = Absent /\ fs[D] = Dir /\ fs[D_B_JS] = File(edit.content)
    /\ edit.content # <<>>

DirOps == {"create_dir", "CREATE_DIR"}

\* C12 as stated: create-directory returns failure where the target exists
\* as a directory, as create-file returns failure where it exists as a file.
C12_CreateDirRejectsExistingDir ==
    [][/\ (Calling(DirOps) /\ is_dir(fs, edit'.path)) => ~edit'.ok
       /\ (Calling({"create"}) /\ exists(fs, edit'.path)) => ~edit'.ok]_vars

\* C12 amended: create-directory accepts a target that exists as a
\* directory (success, nothing changed) and rejects only a target that
\* exists as a regular file; create-file rejects every existing target.
C12_CreateDirRejectsOnlyFile ==
    [][/\ (Calling(DirOps) /\ is_dir(fs, edit'.path)) => (edit'.ok /\ fs' = fs)
       /\ (Calling(DirOps) /\ exists(fs, edit'.path) /\ ~is_dir(fs, edit'.path)) => Refused
       /\ (Calling({"create"}) /\ exists(fs, edit'.path)) => Refused]_vars

\* create-directory was refused on a path that holds a regular file
C12_Witness ==
    /\ edit.op \in DirOps /\ ~edit.ok
    /\ edit.tree[edit.path].kind = "file" /\ fs[edit.path] = edit.tree[edit.path]

\* create-directory made its target and the missing ancestors
DirCreated ==
    /\ edit'.ok
    /\ fs'[edit'.path] = Dir
    /\ \A q \in Ancestors(edit'.path) : fs'[q] = Dir
    /\ SameExcept(Ancestors(edit'.path) \cup {edit'.path})

\* C13 as stated: create-directory (the primitive and the CREATE_DIR step)
\* succeeds and changes nothing on an existing directory, so it keeps
\* succeeding when repeated on the same target; on every missing path it
\* creates the directory and all missing ancestors.
C13_CreateDirIdempotent ==
    [][Calling(DirOps) =>
        /\ is_dir(fs, edit'.path) => (edit'.ok /\ fs' = fs)
        /\ (Again(DirOps) /\ edit.ok) => (edit'.ok /\ fs' = fs)
        /\ ~exists(fs, edit'.path) => DirCreated]_vars

\* C13 amended: as C13, but a missing path with a regular file among its
\* ancestors cannot be created: the call fails and changes nothing.
C13_CreateDirUnlessUnderFile ==
    [][Calling(DirOps) =>
        /\ is_dir(fs, edit'.path) => (edit'.ok /\ fs' = fs)
        /\ (Again(DirOps) /\ edit.ok) => (edit'.ok /\ fs' = fs)
        /\ (~exists(fs, edit'.path) /\ ParentsCreatable(fs, edit'.path)) => DirCreated
        /\ ~ParentsCreatable(fs, edit'.path) => Refused]_vars

\* a CREATE_DIR step on d right after a successful CREATE_DIR step on d:
\* success again, and the file inside d is still there
C13_Witness ==
    /\ edit.op = "CREATE_DIR" /\ edit.path = D /\ edit.ok
    /\ edit.prevOp = "CREATE_DIR" /\ edit.again /\ edit.prevOk
    /\ fs = edit.tree /\ fs[D] = Dir /\ fs[D_B_JS].kind = "file"

DelOps == {"delete", "delete_dir", "DELETE_DIR"}

\* C14: delete-file and delete-directory on a path that does not exist
\* return success and leave the tree unchanged; a delete that follows a
\* successful delete of the same path succeeds and changes nothing.
C14_DeleteIdempotent ==
    [][Calling(DelOps) =>
        /\ ~exists(fs, edit'.path) => (edit'.ok /\ fs' = fs)
        /\ (Again(DelOps) /\ edit.ok) => (edit'.ok /\ fs' = fs)]_vars

\* a delete-file of a.py right after the delete-file that removed a.py
C14_Witness ==
    /\ edit.op = "delete" /\ edit.path = A_PY /\ edit.ok
    /\ edit.prevOp = "delete" /\ edit.again /\ edit.prevOk
    /\ edit.tree[A_PY] = Absent /\ fs = edit.tree

\* C15: delete-directory and the DELETE_DIR step on a regular file, and
\* delete-file on a directory, return failure and leave the tree unchanged.
C15_WrongTypeRefused ==
    [][/\ (Calling({"delete_dir", "DELETE_DIR"}) /\ exists(fs, edit'.path)
              /\ fs[edit'.path].kind = "file") => Refused
       /\ (Calling({"delete"}) /\ is_dir(fs, edit'.path)) => Refused]_vars

\* a DELETE_DIR step was refused on a regular file with content, which is
\* still there
C15_Witness ==
    /\ edit.op = "DELETE_DIR" /\ ~edit.ok
    /\ edit.tree[edit.path].kind = "file" /\ edit.tree[edit.path].content # <<>>
    /\ fs = edit.tree

----------------------------------------------------------------------------
(* The batch-apply surface: CodeEditor.apply_multi_action_fix *)

\* str.lower() on the action names the model uses
lower(s) ==
    CASE s = "MODIFY" -> "modify"
      [] s = "DELETE" -> "delete"
      [] OTHER -> s

\* the operator's answers, and .strip().lower() of each
Answers == {"y", " Y ", "yes", "n", ""}

strip_lower(u) ==
    CASE u = " Y " -> "y"
      [] OTHER -> u

FileAction(action, filepath, content) ==
    [action |-> action, filepath |-> filepath, content |-> content]

\* the elements a decoded batch is made of; a filepath that is missing or
\* the empty string is the empty path
BatchElems ==
    {FileAction("MODIFY", A_PY, X2), FileAction("create", D_B_JS, X1),
     FileAction("create", A_PY, X2U), FileAction("DELETE", A_PY, <<>>),
     FileAction("delete", D, <<>>),
     FileAction("create_dir", D, <<>>), FileAction("delete_dir", D, <<>>),
     [filepath |-> A_PY, content |-> X2],
     [action |-> "create_dir"],
     [action |-> "create", filepath |-> Root, content |-> X1]}

\* the raw response: text that is not JSON, a JSON object, or a JSON array
BatchPayloads(n) ==
    {[json |-> "invalid", value |-> <<>>], [json |-> "object", value |-> <<>>]}
    \cup {[json |-> "array", value |-> v] : v \in SeqsUpTo(BatchElems, n)}

\* CodeEditor._parse_actions
_parse_actions(json_string) ==
    IF json_string.json = "array" THEN ListPlan(json_string.value) ELSE NonePlan

\* the result of one iteration of the execution loop
Applied(skipped, primitive, success, f) ==
    [skipped |-> skipped, primitive |-> primitive, success |-> success, fs |-> f]

\* ApplyAction that also serves the directory actions of the agent loop
ApplyActionWithDirs(act, relative_path, content, f) ==
    IF relative_path = Root THEN Applied(TRUE, "none", TRUE, f)
    ELSE IF act = "modify"
    THEN Applied(FALSE, act, ExecuteModify(f, relative_path, content).ok,
                 ExecuteModify(f, relative_path, content).fs)
    ELSE IF act = "create"
    THEN Applied(FALSE, act, ExecuteCreate(f, relative_path, content).ok,
                 ExecuteCreate(f, relative_path, content).fs)
    ELSE IF act = "delete"
    THEN Applied(FALSE, act, ExecuteDelete(f, relative_path).ok,
                 ExecuteDelete(f, relative_path).fs)
    ELSE IF act = "create_dir"
    THEN Applied(FALSE, act, ExecuteCreateDir(f, relative_path).ok,
                 ExecuteCreateDir(f, relative_path).fs)
    ELSE IF act = "delete_dir"
    THEN Applied(FALSE, act, ExecuteDeleteDir(f, relative_path).ok,
                 ExecuteDeleteDir(f, relative_path).fs)
    ELSE Applied(FALSE, "none", FALSE, f)

\* the body of the execution loop for one element
ApplyAction(act, relative_path, content, f) ==
    IF relative_path = Root THEN Applied(TRUE, "none", TRUE, f)
    ELSE IF act = "modify"
    THEN Applied(FALSE, act, ExecuteModify(f, relative_path, content).ok,
                 ExecuteModify(f, relative_path, content).fs)
    ELSE IF act = "create"
    THEN Applied(FALSE, act, ExecuteCreate(f, relative_path, content).ok,
                 ExecuteCreate(f, relative_path, content).fs)
    ELSE IF act = "delete"
    THEN Applied(FALSE, act, ExecuteDelete(f, relative_path).ok,
                 ExecuteDelete(f, relative_path).fs)
    ELSE Applied(FALSE, "none", FALSE, f)

\* the loop body on the element as decoded
ApplyElement(action, f) ==
    ApplyAction(lower(Get(action, "action", "")), Get(action, "filepath", Root),
                Get(action, "content", <<>>), f)

\* Confirmed that takes every answer but a no for a yes
ConfirmedUnlessNo(user_input) == strip_lower(user_input) # "n"

\* user_input == 'y'
Confirmed(user_input) == strip_lower(user_input) = "y"

\* BatchLoop that stops at the first failed action
BatchLoopBreaks(success, i, n) ==
    IF success /\ i < n THEN [pc |-> "exec", i |-> i + 1] ELSE [pc |-> "return", i |-> i]

\* the for loop over actions: on to the next element whatever happened
BatchLoop(success, i, n) ==
    IF i < n THEN [pc |-> "exec", i |-> i + 1] ELSE [pc |-> "return", i |-> i]

BatchUnchanged ==
    UNCHANGED <<context_files, target_language, errors, plan, codebase_summary, pc,
                step_i, all_successful, result, runs, raw_content, dispatched,
                planCalls, genCalls, snap, edit, tasks>>

InitBatch ==
    /\ fs \in InitTrees
    /\ InitAgent
    /\ snap = [fs |-> fs, context_files |-> <<>>]

\* entry: parse, and give up on anything but a non-empty array
BatchParse(maxLen) ==
    /\ batch.pc = "idle"
    /\ \E raw_json_response \in BatchPayloads(maxLen) :
         batch' = IF Truthy(_parse_actions(raw_json_response))
                  THEN [batch EXCEPT !.pc = "confirm", !.tree = fs,
                                     !.actions = raw_json_response.value]
                  ELSE [batch EXCEPT !.pc = "done", !.tree = fs, !.result = FALSE]
    /\ UNCHANGED fs
    /\ BatchUnchanged

\* the preview is printed and the operator's answer is read
BatchConfirm ==
    /\ batch.pc = "confirm"
    /\ \E user_input \in Answers :
         batch' = IF Confirmed(user_input)
                  THEN [batch EXCEPT !.pc = "exec", !.i = 1, !.user_input = user_input,
                                     !.all_successful = TRUE]
                  ELSE [batch EXCEPT !.pc = "done", !.user_input = user_input,
                                     !.result = FALSE]
    /\ UNCHANGED fs
    /\ BatchUnchanged

\* the record of the iteration for element i that ended as r
Invoked(i, r) == [index |-> i, primitive |-> r.primitive, success |-> r.success]

\* the activation after the iteration for element i ended as r
AfterAction(b, r, next) ==
    [b EXCEPT !.pc = next.pc, !.i = next.i,
              !.all_successful = IF r.success THEN @ ELSE FALSE,
              !.invoked = IF r.skipped THEN @ ELSE Append(@, Invoked(b.i, r))]

\* one iteration of the execution loop
BatchExecute ==
    /\ batch.pc = "exec"
    /\ fs' = ApplyElement(batch.actions[batch.i], fs).fs
    /\ batch' = AfterAction(batch, ApplyElement(batch.actions[batch.i], fs),
                            BatchLoop(ApplyElement(batch.actions[batch.i], fs).success,
                                      batch.i, Len(batch.actions)))
    /\ BatchUnchanged

\* return all_successful
BatchReturn ==
    /\ batch.pc = "return"
    /\ batch' = [batch EXCEPT !.pc = "done", !.result = batch.all_successful]
    /\ UNCHANGED fs
    /\ BatchUnchanged

NextBatch ==
    \/ BatchParse(MaxBatchLen)
    \/ BatchConfirm
    \/ BatchExecute
    \/ BatchReturn

SpecBatch == InitBatch /\ [][NextBatch]_vars

----------------------------------------------------------------------------
(* Properties of the batch-apply surface *)

\* the answers that are an explicit yes
ExplicitYes == {"y", " Y "}

\* the batch was confirmed and apply_multi_action_fix has returned
BatchApplied == batch.pc = "done" /\ batch.user_input \in ExplicitYes

\* the indexes of the actions attempted so far, in the order of the attempts
AttemptOrder == [k \in 1..Len(batch.invoked) |-> batch.invoked[k].index]

RECURSIVE Upto(_)
Upto(n) == IF n = 0 THEN <<>> ELSE Append(Upto(n - 1), n)

\* the element names a file: its filepath is present and not empty
HasFilepath(action) == "filepath" \in DOMAIN action /\ action.filepath # Root

NamesFile(k) == HasFilepath(batch.actions[k])

SomeAttemptFailed == \E k \in 1..Len(batch.invoked) : ~batch.invoked[k].success

C17_NothingWithoutConfirmation ==
    /\ batch.pc = "confirm" => (batch.invoked = <<>> /\ fs = batch.tree)
    /\ (batch.pc = "done" /\ batch.user_input \notin ExplicitYes) =>
           (batch.invoked = <<>> /\ fs = batch.tree /\ ~batch.result)

\* a batch with a create that would have succeeded, declined with "yes"
C17_Witness ==
    /\ batch.pc = "done" /\ batch.user_input = "yes"
    /\ batch.actions # <<>>
    /\ batch.actions[1] = FileAction("create", D_B_JS, X1)
    /\ fs[D_B_JS] = Absent /\ fs = batch.tree

\* the element asks for something other than modify, create or delete
Unsupported(action) ==
    \/ "action" \notin DOMAIN action
    \/ action.action \in {"create_dir", "delete_dir"}

SomeUnsupported == \E k \in 1..Len(batch.actions) : Unsupported(batch.actions[k])

SomeUnsupportedWithFilepath ==
    \E k \in 1..Len(batch.actions) :
        Unsupported(batch.actions[k]) /\ HasFilepath(batch.actions[k])

\* C18 as stated: an element with an action other than modify, create or
\* delete (a directory action or no action) never changes the tree and
\* makes the result of the batch false.
C18_OnlyThreeActions ==
    [][/\ (batch.pc = "exec" /\ Unsupported(batch.actions[batch.i])) => fs' = fs
       /\ (batch'.pc = "done" /\ batch'.user_input \in ExplicitYes /\ SomeUnsupported)
              => ~batch'.result]_vars

\* C18 amended: such an element never changes the tree, and makes the
\* result false if it names a file; without a filepath it is skipped and
\* does not affect the result.
C18_OnlyThreeActionsWithFilepath ==
    [][/\ (batch.pc = "exec" /\ Unsupported(batch.actions[batch.i])) => fs' = fs
       /\ (batch'.pc = "done" /\ batch'.user_input \in ExplicitYes
              /\ SomeUnsupportedWithFilepath) => ~batch'.result]_vars

\* a confirmed batch whose only action is create_dir on the missing d: the
\* attempt invoked no primitive, d is still missing, the result is false
C18_Witness ==
    /\ BatchApplied
    /\ batch.actions = <<FileAction("create_dir", D, <<>>)>>
    /\ Len(batch.invoked) = 1 /\ batch.invoked[1].primitive = "none"
    /\ fs[D] = Absent /\ fs = batch.tree /\ ~batch.result

----------------------------------------------------------------------------
(* Properties of the dispatcher and the plan executor, continued *)

\* C19: a GENERATE_CODE / MODIFY_CODE step dispatched on an empty context
\* store returns failure without a call of the content generator and
\* without a change of the file tree; the content generator is only called
\* in a state whose context store has an entry.
C19_NoContextNoCall ==
    [][Dispatching =>
        /\ (Returned.action \in {"GENERATE_CODE", "MODIFY_CODE"} /\ context_files = <<>>)
              => /\ ~Returned.success
                 /\ ~Returned.called
                 /\ genCalls' = genCalls
                 /\ fs' = fs
        /\ (Returned.called \/ genCalls' # genCalls) => context_files # <<>>]_vars

\* plan [GENERATE_CODE a.py] on a project that has a.py: the only step
\* failed, the generator was never called, the tree is as it was
C19_Witness ==
    /\ pc = "done"
    /\ ~result
    /\ Len(dispatched) = 1
    /\ dispatched[1].action = "GENERATE_CODE"
    /\ ~dispatched[1].success /\ ~dispatched[1].called
    /\ genCalls = <<>>
    /\ context_files = <<>>
    /\ fs = Tree(File(X1), Absent, Absent)

\* C20: within one run the k-th dispatch is that of the k-th step of the
\* plan, every dispatch but the last has returned success, and while the
\* loop runs the step to dispatch next is the one after the last that
\* returned; so no step is dispatched twice, out of order or before its
\* predecessor has returned.
C20_PlanOrder ==
    /\ Len(dispatched) <= Len(plan.steps)
    /\ \A k \in 1..Len(dispatched) :
          /\ dispatched[k].index = k
          /\ dispatched[k].action = upper(Get(plan.steps[k], "action", ""))
          /\ dispatched[k].target = Get(plan.steps[k], "target", Root)
          /\ k < Len(dispatched) => dispatched[k].success
    /\ pc = "act" => step_i = Len(dispatched) + 1

\* a plan of three different steps, all dispatched, all successful
C20_Witness ==
    /\ pc = "done"
    /\ result
    /\ Len(plan.steps) = 3
    /\ Len(dispatched) = 3
    /\ dispatched[1].action = "GET_CONTEXT"
    /\ dispatched[2].action = "MODIFY_CODE"
    /\ dispatched[3].action = "REPORT_SUCCESS"

\* the phases of run_task in the order the code passes them
Rank(p) ==
    CASE p = "idle" -> 0
      [] p = "observe" -> 1
      [] p = "plan" -> 2
      [] p = "act" -> 3
      [] p = "report" -> 4
      [] OTHER -> 5

\* C21: a run never moves back to an earlier phase; the summary provider is
\* called once, in OBSERVE; the plan generator is called once, in PLAN,
\* before any step is dispatched; from ACT on the plan is not changed, and
\* every dispatch is that of the plan element the loop has reached.
C21_PhasesMonotone ==
    [][/\ Rank(pc') >= Rank(pc)
       /\ codebase_summary' # codebase_summary => (pc = "observe" /\ pc' # "observe")
       /\ planCalls' # planCalls =>
             (pc = "plan" /\ pc' # "plan" /\ planCalls' = 1 /\ dispatched = <<>>)
       /\ pc \in {"act", "report", "done"} => plan' = plan
       /\ Dispatching =>
             /\ pc = "act"
             /\ Returned.index = step_i
             /\ Returned.action = upper(Get(plan.steps[step_i], "action", ""))
             /\ Returned.target = Get(plan.steps[step_i], "target", Root)]_vars

\* a run that went through all four phases with a plan of two steps
C21_Witness ==
    /\ pc = "done"
    /\ result
    /\ planCalls = 1
    /\ codebase_summary # NoText
    /\ Len(plan.steps) = 2
    /\ Len(dispatched) = 2

\* C22: every invocation of the dispatcher, whatever its outcome, passes
\* through the pacing delay before it returns.
C22_AlwaysPaced ==
    \A k \in 1..Len(dispatched) : dispatched[k].slept

\* C23: when a modify returns, on whatever path (patch applied, patch
\* rejected, exception while the patch file is written or applied, original
\* unreadable, nothing to change), the patch file does not exist: it was
\* never created or it has been removed.
C23_NoArtifactLeft ==
    edit.op = "modify" =>
        /\ edit.artifact \in {"never", "removed"}
        /\ edit.patched => edit.artifact = "removed"
        /\ edit.fault \in {"write", "run"} /\ edit.content # edit.before
              => edit.artifact = "removed"

\* git apply rejected the patch; the patch file had been written and is gone
C23_Witness ==
    /\ edit.op = "modify"
    /\ edit.fault = "none"
    /\ edit.patched /\ ~edit.ok
    /\ edit.artifact = "removed"
    /\ fs[A_PY] = File(edit.before)

GenerateOrModify == {"GENERATE_CODE", "MODIFY_CODE"}

\* C24: a GET_CONTEXT step that fails leaves the context store and the
\* detected language as they were, a GENERATE_CODE / MODIFY_CODE step that
\* fails leaves the context store as it was, and whenever a step changes
\* the context store the step succeeded and the entry of its target is the
\* content of the file that is then at the target: content read or written,
\* never a message of a collaborator.
C24_ContextOnlyOnSuccess ==
    [][Dispatching =>
        /\ (Returned.action = "GET_CONTEXT" /\ ~Returned.success)
              => (context_files' = context_files /\ target_language' = target_language)
        /\ (Returned.action \in GenerateOrModify /\ ~Returned.success)
              => context_files' = context_files
        /\ context_files' # context_files
              => /\ Returned.success
                 /\ exists(fs', Returned.target)
                 /\ fs'[Returned.target].kind = "file"
                 /\ CtxGet(context_files', Returned.target)
                       = fs'[Returned.target].content]_vars

\* part occurs in text as a contiguous run of tokens
Contains(text, part) ==
    \E i \in 1..(Len(text) - Len(part) + 1) :
        SubSeq(text, i, i + Len(part) - 1) = part

\* C25: a step that is neither GET_CONTEXT nor GENERATE_CODE / MODIFY_CODE
\* (CREATE_DIR, DELETE_DIR, REPORT_SUCCESS, an unknown action) leaves the
\* context store and the detected language as they were, whether it
\* succeeds or fails; and the context handed to the content generator
\* holds the content of every entry of the store, the entries of files
\* under a deleted directory included.
C25_DirStepsKeepContext ==
    [][Dispatching =>
        /\ Returned.action \notin (GenerateOrModify \cup {"GET_CONTEXT"})
              => (context_files' = context_files /\ target_language' = target_language)
        /\ Returned.called
              => \A k \in 1..Len(context_files) :
                    Contains(genCalls'[Len(genCalls')].context, context_files[k].content)]_vars

\* plan [get_context d/b.js, DELETE_DIR d, MODIFY_CODE d/b.js]: the directory
\* was deleted, the entry of d/b.js stayed and its content was handed to the
\* content generator by the third step
C25_Witness ==
    /\ Len(dispatched) = 3
    /\ dispatched[1].action = "GET_CONTEXT" /\ dispatched[1].target = D_B_JS
    /\ dispatched[2].action = "DELETE_DIR" /\ dispatched[2].target = D
    /\ dispatched[2].success
    /\ dispatched[3].action = "MODIFY_CODE" /\ dispatched[3].target = D_B_JS
    /\ dispatched[3].called
    /\ Len(genCalls) = 1
    /\ Contains(genCalls[1].context, X2)
    /\ CtxHas(context_files, D_B_JS)

\* C26: no invocation of the dispatcher is left by an exception, whatever
\* the plan element (not an object, without action or target, with an
\* absolute target) and whatever the tree: every dispatch returns, and the
\* run is never ended by an exception.
C26_NeverRaises ==
    /\ pc # "raised"
    /\ \A k \in 1..Len(dispatched) : ~dispatched[k].raised

\* the planner's response was decoded to an array of N elements
PlanDecoded == planCalls = 1 /\ ~plan.none /\ pc \in {"act", "report", "done"}

\* C30: a run is never ended otherwise than by its return, it dispatches at
\* most N steps for a plan of N elements, and once it has returned for a
\* decoded plan the result is true exactly when all N elements were
\* dispatched and each dispatch returned success.
C30_ReturnsAfterAtMostN ==
    /\ pc # "raised"
    /\ Len(dispatched) <= Len(plan.steps)
    /\ (pc = "done" /\ PlanDecoded)
          => (result <=> /\ Len(dispatched) = Len(plan.steps)
                         /\ \A k \in 1..Len(dispatched) : dispatched[k].success)

\* spellings of the two action names
GenerateOrModifyNames ==
    {"GENERATE_CODE", "MODIFY_CODE", "generate_code", "modify_code", "Modify_Code"}

\* what the content generator returned in this transition, if it was called
Generated == IF Returned.called THEN raw_content' ELSE NoText

\* the outcome o of the dispatcher is the one this transition had
SameEffect(o) ==
    /\ o.success = Returned.success
    /\ o.fs = fs'
    /\ o.context_files = context_files'
    /\ o.errors = errors'

\* C27: GENERATE_CODE and MODIFY_CODE are one operation: a step with either
\* name, in any letter case, has the result and the effect on tree, context
\* store and errors that the dispatched step had; and once content has been
\* generated the only branch is on whether the target exists: modify if it
\* does, create if it does not.
C27_GenerateIsModify ==
    [][(Dispatching /\ Returned.action \in GenerateOrModify) =>
        /\ \A name \in GenerateOrModifyNames :
              SameEffect(_execute_step(Step(name, Returned.target), fs, context_files,
                                       target_language, errors, Generated))
        /\ (Returned.called /\ ~startswith(Generated, <<"ERROR", ":">>))
              => IF exists(fs, Returned.target)
                 THEN /\ fs' = ExecuteModify(fs, Returned.target, Generated).fs
                      /\ Returned.success = ExecuteModify(fs, Returned.target, Generated).ok
                 ELSE /\ fs' = ExecuteCreate(fs, Returned.target, Generated).fs
                      /\ Returned.success = ExecuteCreate(fs, Returned.target, Generated).ok]_vars

\* plan [GET_CONTEXT a.py, GENERATE_CODE a.py, MODIFY_CODE d/b.js] on a
\* project that has a.py only: GENERATE_CODE patched the file that existed,
\* MODIFY_CODE created the one that did not
C27_Witness ==
    /\ Len(dispatched) = 3
    /\ dispatched[2].action = "GENERATE_CODE" /\ dispatched[2].target = A_PY
    /\ dispatched[2].success
    /\ dispatched[3].action = "MODIFY_CODE" /\ dispatched[3].target = D_B_JS
    /\ dispatched[3].success
    /\ fs[A_PY] = File(X2)
    /\ fs[D] = Dir
    /\ fs[D_B_JS] = File(X2U)

\* C28: a successful GET_CONTEXT sets the detected language to the one its
\* target implies, whatever it was before; no other step changes it; and the
\* language handed to the content generator is the detected language at the
\* time of the call.
C28_OverwriteOnRead ==
    [][Dispatching =>
        /\ (Returned.action = "GET_CONTEXT" /\ Returned.success)
              => target_language' = _detect_language(Returned.target)
        /\ ~(Returned.action = "GET_CONTEXT" /\ Returned.success)
              => target_language' = target_language
        /\ Returned.called
              => genCalls'[Len(genCalls')].language = target_language]_vars

\* C29: a GENERATE_CODE / MODIFY_CODE step whose target exists but is not a
\* readable file fails once content has been generated: no patch file is
\* written, git apply is not run and the tree is as it was; and a modify of
\* a path that is not there any more fails in the same way.
C29_UnreadableFailsAtOnce ==
    [][(Dispatching /\ Returned.action \in GenerateOrModify) =>
        /\ (/\ Returned.called
            /\ ~startswith(Generated, <<"ERROR", ":">>)
            /\ exists(fs, Returned.target)
            /\ fs[Returned.target].kind # "file")
              => /\ ~Returned.success
                 /\ fs' = fs
                 /\ context_files' = context_files
                 /\ ~ExecuteModify(fs, Returned.target, Generated).patched
                 /\ ExecuteModify(fs, Returned.target, Generated).artifact = "never"
        /\ \A p \in Paths \ {Root} :
              ~exists(fs, p)
                 => /\ ~ExecuteModify(fs, p, Generated).ok
                    /\ ExecuteModify(fs, p, Generated).fs = fs
                    /\ ~ExecuteModify(fs, p, Generated).patched
                    /\ ExecuteModify(fs, p, Generated).artifact = "never"]_vars

\* plan [GET_CONTEXT a.py, modify_code d] where d is a directory: content
\* was generated, the step failed and the tree is the initial one
C29_Witness ==
    /\ pc = "done"
    /\ ~result
    /\ Len(dispatched) = 2
    /\ dispatched[2].action = "MODIFY_CODE" /\ dispatched[2].target = D
    /\ dispatched[2].called /\ ~dispatched[2].success
    /\ raw_content = X2
    /\ fs = Tree(File(X1U), Dir, File(X2))

\* C33: errors never holds more than one entry; it grows only in an
\* invocation of the dispatcher that returns failure, and then by one entry;
\* so a run that returns true returns with errors empty.
C33_AtMostOneError ==
    [][/\ Len(errors) <= 1 /\ Len(errors') <= 1
       /\ Len(errors') > Len(errors)
             => /\ Dispatching
                /\ ~Returned.success
                /\ Len(errors') = Len(errors) + 1
                /\ SubSeq(errors', 1, Len(errors)) = errors
       /\ (pc' = "done" /\ result') => errors' = <<>>]_vars

\* a run whose third step failed and left the one entry of errors
C33_Witness ==
    /\ pc = "done"
    /\ ~result
    /\ Len(dispatched) = 3
    /\ dispatched[1].success /\ dispatched[2].success
    /\ ~dispatched[3].success
    /\ Len(errors) = 1

\* C34: a planner response that decodes to the empty array is a run with
\* nothing to do: no step is dispatched, the tree is as it was and run_task
\* returns true.
C34_EmptyPlanSucceeds ==
    (pc = "done" /\ planCalls = 1 /\ ~plan.none /\ plan.steps = <<>>)
        => /\ result
           /\ dispatched = <<>>
           /\ fs = snap.fs

\* C32: whatever the step and its target (empty, missing, with ".."), the
\* project root directory is never deleted or replaced, and no path outside
\* the project root is created, modified or deleted.
C32_Confined ==
    [][/\ fs'[Root] = Dir
       /\ \A q \in Paths : Outside(q) => fs'[q] = fs[q]]_vars

\* C31: nothing orders two tasks on one root. The branch of a task is the
\* one its existence check chose when it was made; a create that has passed
\* its own check writes whatever another task has put at the path since,
\* and reports success; a create whose check finds the path taken fails and
\* changes nothing. So two creates of one missing path can both succeed,
\* the later write replacing the earlier content.
C31_NoLockBetweenCheckAndWrite ==
    [][\A t \in Tasks :
        /\ (tasks[t].pc = "idle" /\ tasks'[t].pc # "idle")
              => /\ tasks'[t].branch = (IF exists(fs, tasks'[t].target)
                                        THEN "modify" ELSE "create")
                 /\ fs' = fs
        /\ (tasks[t].pc = "create" /\ tasks'[t].pc = "done")
              => (~tasks'[t].ok /\ fs' = fs /\ exists(fs, tasks[t].target))
        /\ (tasks[t].pc = "write" /\ tasks'[t].pc = "done"
                /\ fs[tasks[t].target].kind # "dir"
                /\ ParentsCreatable(fs, tasks[t].target))
              => /\ tasks'[t].ok
                 /\ fs'[tasks[t].target] = File(tasks[t].content)]_vars

\* both tasks took the create branch for the same missing path, both passed
\* the check, both reported success; task 1 wrote last, over the content of
\* task 2
C31_Witness ==
    /\ tasks[1].pc = "done" /\ tasks[2].pc = "done"
    /\ tasks[1].target = tasks[2].target
    /\ tasks[1].branch = "create" /\ tasks[2].branch = "create"
    /\ tasks[1].ok /\ tasks[2].ok
    /\ tasks[1].content # tasks[2].content
    /\ tasks[1].stale
    /\ snap.fs[tasks[1].target] = Absent
    /\ fs[tasks[1].target] = File(tasks[1].content)

====
